---- MODULE Spec2Model ----
(***************************************************************************)
(* The Percent Composition Lab (src/src/App.tsx): the App component's      *)
(* state (mode, inputs), its handlers (handleInputChange, resetInputs,     *)
(* setMode) and its useMemo chain (elementMasses, totalMass, percentages,  *)
(* chartData), as a state machine.                                         *)
(*                                                                         *)
(* Numbers.  A JavaScript number is modelled as a record                   *)
(*   [k |-> "fin", n |-> numerator, d |-> denominator]  (lowest terms)     *)
(*   [k |-> "inf", n |-> 1 or -1,   d |-> 0]            (+/- Infinity)     *)
(*   [k |-> "nan", n |-> 0,         d |-> 0]            (NaN)              *)
(* Finite values are exact rationals: the rounding of IEEE-754 doubles and *)
(* the overflow of finite values to Infinity are not modelled.  Infinity   *)
(* and NaN follow the IEEE-754 rules of +, *, /, > and Math.max.           *)
(*                                                                         *)
(* Strings.  A string is a sequence of one-character strings, so that      *)
(* parseFloat can read it character by character.                          *)
(***************************************************************************)
EXTENDS Integers, Sequences, FiniteSets, TLC

VARIABLES
    mode,           \* useState<Mode>: "mass" or "molar"
    inputs,         \* useState<Record<string, number>>: id -> number
    modeQueue,      \* setMode calls not yet rendered
    inputsQueue,    \* setInputs calls not yet rendered
    elementMasses,  \* useMemo value, deps [inputs, mode]
    totalMass,      \* useMemo value, deps [elementMasses]
    percentages,    \* useMemo value, deps [elementMasses, totalMass]
    chartData,      \* useMemo value, deps [elementMasses, percentages]
    last            \* history: the event of Spec whose render produced this state

vars == <<mode, inputs, modeQueue, inputsQueue, elementMasses, totalMass,
          percentages, chartData, last>>

(***************************************************************************)
(* Bounds.                                                                 *)
(***************************************************************************)
\* Updates that may be queued before React renders (batched updates).
MaxPending == 2

(***************************************************************************)
(* JavaScript numbers.                                                     *)
(***************************************************************************)
Abs(x) == IF x < 0 THEN -x ELSE x

RECURSIVE Gcd(_, _)
Gcd(a, b) == IF b = 0 THEN a ELSE Gcd(b, a % b)

NaN == [k |-> "nan", n |-> 0, d |-> 0]

Inf(sign) == [k |-> "inf", n |-> sign, d |-> 0]

Infinity == Inf(1)

\* The rational n/d (d # 0) in lowest terms with a positive denominator.
Fin(n, d) ==
    LET s == IF d < 0 THEN -1 ELSE 1
        g == Gcd(Abs(n), Abs(d))
    IN [k |-> "fin", n |-> (s * n) \div g, d |-> (s * d) \div g]

Zero == Fin(0, 1)

Hundred == Fin(100, 1)

isNaN(x) == x.k = "nan"

Sign(x) == IF x.k = "nan" \/ x.n = 0 THEN 0 ELSE IF x.n > 0 THEN 1 ELSE -1

\* x > y of JavaScript: false when either side is NaN.
Gt(x, y) ==
    CASE x.k = "nan" \/ y.k = "nan" -> FALSE
      [] x.k = "inf" /\ y.k = "inf" -> x.n > y.n
      [] x.k = "inf" -> x.n > 0
      [] y.k = "inf" -> y.n < 0
      [] OTHER -> x.n * y.d > y.n * x.d

\* x + y.
Add(x, y) ==
    CASE x.k = "nan" \/ y.k = "nan" -> NaN
      [] x.k = "inf" /\ y.k = "inf" -> IF x.n = y.n THEN x ELSE NaN
      [] x.k = "inf" -> x
      [] y.k = "inf" -> y
      [] OTHER ->
            LET g == Gcd(x.d, y.d)
            IN Fin(x.n * (y.d \div g) + y.n * (x.d \div g), (x.d \div g) * y.d)

\* x * y.
Mul(x, y) ==
    CASE x.k = "nan" \/ y.k = "nan" -> NaN
      [] x.k = "inf" \/ y.k = "inf" ->
            IF Sign(x) * Sign(y) = 0 THEN NaN ELSE Inf(Sign(x) * Sign(y))
      [] OTHER ->
            LET g1 == Gcd(Abs(x.n), y.d)
                g2 == Gcd(Abs(y.n), x.d)
            IN Fin((x.n \div g1) * (y.n \div g2), (x.d \div g2) * (y.d \div g1))

\* x / y.
Div(x, y) ==
    CASE x.k = "nan" \/ y.k = "nan" -> NaN
      [] x.k = "inf" /\ y.k = "inf" -> NaN
      [] x.k = "inf" -> Inf(IF Sign(y) < 0 THEN -x.n ELSE x.n)
      [] y.k = "inf" -> Zero
      [] y.n = 0 -> IF x.n = 0 THEN NaN ELSE Inf(Sign(x))
      [] OTHER ->
            LET g1 == Gcd(Abs(x.n), Abs(y.n))
                g2 == Gcd(x.d, y.d)
            IN Fin((x.n \div g1) * (y.d \div g2), (x.d \div g2) * (y.n \div g1))

\* Math.max(x, y): NaN when either argument is NaN.
MathMax(x, y) ==
    IF x.k = "nan" \/ y.k = "nan" THEN NaN ELSE IF Gt(y, x) THEN y ELSE x

\* v || 0: 0 and NaN are falsy.
OrZero(v) == IF v.k = "nan" \/ (v.k = "fin" /\ v.n = 0) THEN Zero ELSE v

\* Object.is(x, y) on numbers (the sign of zero is not modelled).
ObjectIs(x, y) == x = y

(***************************************************************************)
(* parseFloat (ECMAScript 19.2.4): leading white space is skipped and the  *)
(* longest prefix that is a StrDecimalLiteral is converted; NaN when no    *)
(* prefix is one.                                                          *)
(***************************************************************************)
Digits == <<"0", "1", "2", "3", "4", "5", "6", "7", "8", "9">>

IsDigit(c) == \E i \in 1..10 : Digits[i] = c

DigitValue(c) == (CHOOSE i \in 1..10 : Digits[i] = c) - 1

IsWhiteSpace(c) == c \in {" ", "\t", "\n"}

Drop(s, k) == SubSeq(s, k + 1, Len(s))

StartsWith(s, p) == Len(s) >= Len(p) /\ SubSeq(s, 1, Len(p)) = p

RECURSIVE TrimStart(_)
TrimStart(s) ==
    IF s # <<>> /\ IsWhiteSpace(Head(s)) THEN TrimStart(Tail(s)) ELSE s

\* The number of leading decimal digits of s.
RECURSIVE DigitRun(_)
DigitRun(s) ==
    IF s # <<>> /\ IsDigit(Head(s)) THEN 1 + DigitRun(Tail(s)) ELSE 0

\* The value of a sequence of decimal digits (0 for the empty sequence).
RECURSIVE DigitsValue(_)
DigitsValue(s) ==
    IF s = <<>> THEN 0
    ELSE 10 * DigitsValue(SubSeq(s, 1, Len(s) - 1)) + DigitValue(s[Len(s)])

RECURSIVE Pow10(_)
Pow10(k) == IF k = 0 THEN 1 ELSE 10 * Pow10(k - 1)

InfinityWord == <<"I", "n", "f", "i", "n", "i", "t", "y">>

\* The ExponentPart at the head of s, as <<present, exponent>>.
ExponentPart(s) ==
    IF s = <<>> \/ Head(s) \notin {"e", "E"} THEN <<FALSE, 0>>
    ELSE LET r  == Tail(s)
             sg == IF r # <<>> /\ Head(r) = "-" THEN -1 ELSE 1
             ds == IF r # <<>> /\ Head(r) \in {"+", "-"} THEN Tail(r) ELSE r
             n  == DigitRun(ds)
         IN IF n = 0 THEN <<FALSE, 0>>
            ELSE <<TRUE, sg * DigitsValue(SubSeq(ds, 1, n))>>

parseFloat(string) ==
    LET t    == TrimStart(string)
        sg   == IF t # <<>> /\ Head(t) = "-" THEN -1 ELSE 1
        u    == IF t # <<>> /\ Head(t) \in {"+", "-"} THEN Tail(t) ELSE t
        ni   == DigitRun(u)
        a    == Drop(u, ni)
        dot  == a # <<>> /\ Head(a) = "."
        nf   == IF dot THEN DigitRun(Tail(a)) ELSE 0
        b    == IF dot THEN Drop(a, 1 + nf) ELSE a
        ex   == ExponentPart(b)[2]
        mant == DigitsValue(SubSeq(u, 1, ni) \o SubSeq(Drop(a, 1), 1, nf))
    IN IF StartsWith(u, InfinityWord) THEN Inf(sg)
       ELSE IF ni = 0 /\ nf = 0 THEN NaN
       ELSE IF ex >= nf THEN Fin(sg * mant * Pow10(ex - nf), 1)
       ELSE Fin(sg * mant, Pow10(nf - ex))

(***************************************************************************)
(* The element table and the raw strings the input fields deliver.         *)
(***************************************************************************)
ELEMENTS ==
    << [id |-> "C", name |-> "Carbon",   color |-> "#1f2937", atomicMass |-> Fin(12011, 1000)],
       [id |-> "H", name |-> "Hydrogen", color |-> "#60a5fa", atomicMass |-> Fin(1008, 1000)],
       [id |-> "O", name |-> "Oxygen",   color |-> "#ef4444", atomicMass |-> Fin(15999, 1000)],
       [id |-> "N", name |-> "Nitrogen", color |-> "#f59e0b", atomicMass |-> Fin(14007, 1000)] >>

Ids == {ELEMENTS[i].id : i \in 1..Len(ELEMENTS)}

ElementOf(id) == ELEMENTS[CHOOSE i \in 1..Len(ELEMENTS) : ELEMENTS[i].id = id]

Modes == {"mass", "molar"}

\* Raw strings an event may carry: e.target.value of handleInputChange.
RawValues ==
    { <<>>,
      <<"a", "b", "c">>,
      <<"-", "5">>,
      <<"4">>,
      <<"1", "2">>,
      <<"1", "2", "a", "b", "c">>,
      <<" ", "4">>,
      <<"1", ".", "2", "e", "1">>,
      <<".">>,
      <<"I", "n", "f", "i", "n", "i", "t", "y">>,
      <<"-", "I", "n", "f", "i", "n", "i", "t", "y">> }

\* The raw strings of the batched specification: a negative number, a
\* positive number, Infinity.
BatchValues ==
    { <<"-", "5">>, <<"4">>, <<"I", "n", "f", "i", "n", "i", "t", "y">> }

(***************************************************************************)
(* The component's state and its setters.  A useState setter does not      *)
(* change the state: it queues an update, and React applies the queue, in  *)
(* order, when it next renders the component.                              *)
(***************************************************************************)
\* useState's initial value of inputs, and the object resetInputs passes.
ZeroInputs == [id \in Ids |-> Zero]

\* setInputs(prev => ...): a function of the state at render time.
FnUpdate(id, num) == [fn |-> TRUE, id |-> id, num |-> num, obj |-> ZeroInputs]

\* setInputs({...}): an object that replaces the state (id "": no element).
ObjUpdate(obj) == [fn |-> FALSE, id |-> "", num |-> Zero, obj |-> obj]

\* Mutant: the updater without Math.max(0, num).
Updater_NoClamp(prev, id, num) ==
    [prev EXCEPT ![id] = IF isNaN(num) THEN Zero ELSE num]

\* Mutant: the updater without the isNaN test.
Updater_NoNaNTest(prev, id, num) ==
    [prev EXCEPT ![id] = MathMax(Zero, num)]

\* The updater of handleInputChange: {...prev, [id]: isNaN(num) ? 0 : Math.max(0, num)}.
Updater(prev, id, num) ==
    [prev EXCEPT ![id] = IF isNaN(num) THEN Zero ELSE MathMax(Zero, num)]

\* The inputs queue after setInputs(action).
setInputs(action) == Append(inputsQueue, action)

\* Mutant: handleInputChange spreading the inputs of the last render
\* (setInputs({...inputs, [id]: ...})) instead of the updater's prev.
handleInputChange_Stale(id, value) ==
    LET num == parseFloat(value)
    IN setInputs([fn |-> FALSE, id |-> id, num |-> num,
                  obj |-> [inputs EXCEPT ![id] = IF isNaN(num) THEN Zero ELSE MathMax(Zero, num)]])

\* The inputs queue after handleInputChange(id, value).
handleInputChange(id, value) ==
    LET num == parseFloat(value)
    IN setInputs(FnUpdate(id, num))

\* Mutant: resetInputs clearing carbon only.
resetInputs_CarbonOnly == setInputs(ObjUpdate([inputs EXCEPT !["C"] = Zero]))

\* The inputs queue after resetInputs().
resetInputs == setInputs(ObjUpdate(ZeroInputs))

\* The mode queue after setMode(m).
setMode(m) == Append(modeQueue, m)

\* React's reducer for one queued update of inputs.
ApplyUpdate(prev, u) == IF u.fn THEN Updater(prev, u.id, u.num) ELSE u.obj

\* The state after the queued updates q, applied in order to prev.
RECURSIVE ProcessQueue(_, _)
ProcessQueue(prev, q) ==
    IF q = <<>> THEN prev ELSE ProcessQueue(ApplyUpdate(prev, Head(q)), Tail(q))

(***************************************************************************)
(* The derived values: the bodies of the four useMemo callbacks.           *)
(***************************************************************************)
\* Mutant: elementMasses without the mode test.
ElementMassesOf_NoMode(inp, m) == [id \in Ids |-> OrZero(inp[id])]

ElementMassesOf(inp, m) ==
    [id \in Ids |->
        LET val == OrZero(inp[id])
        IN IF m = "mass" THEN val ELSE Mul(val, ElementOf(id).atomicMass)]

\* Object.values(elementMasses).reduce((sum, mass) => sum + mass, 0), the
\* values in insertion order, which is the order of ELEMENTS.
RECURSIVE Reduce(_, _, _)
Reduce(masses, i, sum) ==
    IF i > Len(ELEMENTS) THEN sum
    ELSE Reduce(masses, i + 1, Add(sum, masses[ELEMENTS[i].id]))

\* Mutant: the reduction skipping the first value.
TotalMassOf_SkipFirst(masses) == Reduce(masses, 2, Zero)

TotalMassOf(masses) == Reduce(masses, 1, Zero)

PercentagesOf(masses, total) ==
    [id \in Ids |->
        IF Gt(total, Zero) THEN Mul(Div(masses[id], total), Hundred) ELSE Zero]

\* Mutant: the filter with >= in place of >.
ChartFilter_NonStrict(masses, el) == ~Gt(Zero, masses[el.id])

ChartFilter(masses, el) == Gt(masses[el.id], Zero)

ChartDataOf(masses, percs) ==
    LET kept == SelectSeq(ELEMENTS, LAMBDA el : ChartFilter(masses, el))
    IN [i \in 1..Len(kept) |->
          [name |-> kept[i].name, value |-> percs[kept[i].id], color |-> kept[i].color]]

\* Mutant: the dependency list [inputs], without mode.
MassesDepsChanged_NoMode(inputsReplaced, oldMode, newMode) == inputsReplaced

\* Whether a dependency of useMemo(..., [inputs, mode]) changed: inputs is a
\* new object whenever an update of it was applied, mode is compared by value.
MassesDepsChanged(inputsReplaced, oldMode, newMode) ==
    inputsReplaced \/ oldMode # newMode

\* Whether a dependency of useMemo(..., [elementMasses, totalMass]) changed.
PercentagesDepsChanged(massesReplaced, oldTotal, newTotal) ==
    massesReplaced \/ ~ObjectIs(oldTotal, newTotal)

(***************************************************************************)
(* A render of App with the queues mq and iq pending: the state hooks      *)
(* apply their queues, then each useMemo recomputes if a dependency        *)
(* changed and keeps its value otherwise.                                  *)
(***************************************************************************)
Flush(mq, iq) ==
    LET mode2  == IF mq = <<>> THEN mode ELSE mq[Len(mq)]
        inp2   == ProcessQueue(inputs, iq)
        newEM  == MassesDepsChanged(iq # <<>>, mode, mode2)
        em2    == IF newEM THEN ElementMassesOf(inp2, mode2) ELSE elementMasses
        tm2    == IF newEM THEN TotalMassOf(em2) ELSE totalMass
        newPC  == PercentagesDepsChanged(newEM, totalMass, tm2)
        pc2    == IF newPC THEN PercentagesOf(em2, tm2) ELSE percentages
        cd2    == IF newEM \/ newPC THEN ChartDataOf(em2, pc2) ELSE chartData
    IN /\ mode' = mode2
       /\ inputs' = inp2
       /\ elementMasses' = em2
       /\ totalMass' = tm2
       /\ percentages' = pc2
       /\ chartData' = cd2
       /\ modeQueue' = <<>>
       /\ inputsQueue' = <<>>

\* A history record: the kind of event, the element id or mode it carries,
\* and the raw string of a change.
Event(op, target, value) == [op |-> op, target |-> target, value |-> value]

\* The state after the first render.
Init ==
    /\ mode = "mass"
    /\ inputs = ZeroInputs
    /\ modeQueue = <<>>
    /\ inputsQueue = <<>>
    /\ elementMasses = ElementMassesOf(ZeroInputs, "mass")
    /\ totalMass = TotalMassOf(ElementMassesOf(ZeroInputs, "mass"))
    /\ percentages = PercentagesOf(ElementMassesOf(ZeroInputs, "mass"), Zero)
    /\ chartData = <<>>
    /\ last = Event("init", "", <<>>)

(***************************************************************************)
(* Spec: one DOM event at a time.  React flushes the updates of a discrete *)
(* event (change, click) before the next event is dispatched, so the       *)
(* handler and the render it causes are one step.                          *)
(***************************************************************************)
\* onChange of the input of element id, with e.target.value = value.
OnChange(id, value) ==
    /\ Flush(modeQueue, handleInputChange(id, value))
    /\ last' = Event("change", id, value)

\* onClick of a mode button.
OnClickMode(m) ==
    /\ Flush(setMode(m), inputsQueue)
    /\ last' = Event("mode", m, <<>>)

\* onClick of "Clear Elements".
OnClickReset ==
    /\ Flush(modeQueue, resetInputs)
    /\ last' = Event("reset", "", <<>>)

Next ==
    \/ \E id \in Ids, value \in RawValues : OnChange(id, value)
    \/ \E m \in Modes : OnClickMode(m)
    \/ OnClickReset

Spec == Init /\ [][Next]_vars

(***************************************************************************)
(* BatchSpec: several handler calls before one render (React batches the   *)
(* updates made within one event), at most MaxPending of them.             *)
(***************************************************************************)
Pending == Len(modeQueue) + Len(inputsQueue)

BatchChange(id, value) ==
    /\ Pending < MaxPending
    /\ inputsQueue' = handleInputChange(id, value)
    /\ UNCHANGED <<mode, inputs, modeQueue, elementMasses, totalMass,
                   percentages, chartData, last>>

BatchMode(m) ==
    /\ Pending < MaxPending
    /\ modeQueue' = setMode(m)
    /\ UNCHANGED <<mode, inputs, inputsQueue, elementMasses, totalMass,
                   percentages, chartData, last>>

BatchReset ==
    /\ Pending < MaxPending
    /\ inputsQueue' = resetInputs
    /\ UNCHANGED <<mode, inputs, modeQueue, elementMasses, totalMass,
                   percentages, chartData, last>>

Render ==
    /\ Pending > 0
    /\ Flush(modeQueue, inputsQueue)
    /\ UNCHANGED last

BatchNext ==
    \/ \E id \in Ids, value \in BatchValues : BatchChange(id, value)
    \/ \E m \in Modes : BatchMode(m)
    \/ BatchReset
    \/ Render

BatchSpec == Init /\ [][BatchNext]_vars

(***************************************************************************)
(* Properties.                                                             *)
(***************************************************************************)
StrAbc == <<"a", "b", "c">>

StrMinus5 == <<"-", "5">>

Str12abc == <<"1", "2", "a", "b", "c">>

\* A number that is not NaN and is >= 0 (Infinity included).
NonNegative(x) == x.k \in {"fin", "inf"} /\ x.n >= 0

\* A finite number >= 0.
FiniteNonNegative(x) == x.k = "fin" /\ x.n >= 0

\* C1: in every reachable state the stored quantity of every element is a
\* number (not NaN) that is >= 0.
C1_QuantitiesNonNegative == \A id \in Ids : NonNegative(inputs[id])

\* C1 witness: an edit to "-5" was stored as 0 while another element holds
\* a positive quantity.
C1_Witness ==
    /\ last.op = "change" /\ last.value = StrMinus5
    /\ inputs[last.target] = Zero
    /\ \E id \in Ids : inputs[id] = Fin(12, 1)

\* The whole string, after leading white space, is a decimal literal or a
\* signed "Infinity": nothing follows the number.
IsNumberString(s) ==
    LET t   == TrimStart(s)
        u   == IF t # <<>> /\ Head(t) \in {"+", "-"} THEN Tail(t) ELSE t
        ni  == DigitRun(u)
        a   == Drop(u, ni)
        dot == a # <<>> /\ Head(a) = "."
        nf  == IF dot THEN DigitRun(Tail(a)) ELSE 0
        b   == IF dot THEN Drop(a, 1 + nf) ELSE a
        r   == IF b = <<>> THEN <<>> ELSE Tail(b)
        ds  == IF r # <<>> /\ Head(r) \in {"+", "-"} THEN Tail(r) ELSE r
    IN \/ u = InfinityWord
       \/ /\ ni + nf > 0
          /\ \/ b = <<>>
             \/ Head(b) \in {"e", "E"} /\ ds # <<>> /\ DigitRun(ds) = Len(ds)

C3_NoNaNInfinityNegative ==
    /\ FiniteNonNegative(totalMass)
    /\ \A id \in Ids :
          /\ FiniteNonNegative(elementMasses[id])
          /\ FiniteNonNegative(percentages[id])
          /\ totalMass = Zero => percentages[id] = Zero

SumOfPercentages ==
    Add(Add(Add(Add(Zero, percentages["C"]), percentages["H"]), percentages["O"]),
        percentages["N"])

\* C4 as stated: whenever total > 0 the four percentages sum to 100, and
\* each percentage is contribution / total * 100.
C4_PercentagesSumTo100 ==
    Gt(totalMass, Zero) =>
        /\ SumOfPercentages = Hundred
        /\ \A id \in Ids :
              percentages[id] = Mul(Div(elementMasses[id], totalMass), Hundred)

\* C5: reset() leaves the mode as it was and sets every quantity to 0, and
\* the derived state it exposes has total 0 and percentage 0 for every
\* element, in either mode.
C5_ResetClearsQuantities ==
    [][last'.op = "reset" =>
          /\ mode' = mode
          /\ inputs' = [id \in Ids |-> Zero]
          /\ totalMass' = Zero
          /\ \A id \in Ids : percentages'[id] = Zero]_vars

\* C5 witness: a reset in molar mode.
C5_Witness ==
    /\ last.op = "reset" /\ mode = "molar"
    /\ totalMass = Zero /\ chartData = <<>>

\* What an edit with parsed value num stores.
StoredFor(num) == IF num.k = "nan" \/ num.n < 0 THEN Zero ELSE num

\* The quantity of id after the queued updates q, given its quantity old
\* before them: the result of the last edit of id or reset in q.
LastWrite(id, q, old) ==
    LET hits == {i \in 1..Len(q) : q[i].id = id \/ q[i].id = ""}
    IN IF hits = {} THEN old
       ELSE LET i == CHOOSE j \in hits : \A h \in hits : h <= j
            IN IF q[i].id = "" THEN Zero ELSE StoredFor(q[i].num)

\* C6: an edit changes only the quantity of its id: a handler call leaves
\* the rendered quantities and the mode as they are, and the render of any
\* batch of queued edits and resets leaves each id with the result of the
\* last edit of that id or reset, and the mode with the last setMode.
C6_EditTouchesOnlyItsId ==
    [][/\ Len(inputsQueue') > Len(inputsQueue) =>
             /\ inputs' = inputs /\ mode' = mode /\ modeQueue' = modeQueue
             /\ SubSeq(inputsQueue', 1, Len(inputsQueue)) = inputsQueue
       /\ (Pending > 0 /\ inputsQueue' = <<>> /\ modeQueue' = <<>>) =>
             /\ \A id \in Ids : inputs'[id] = LastWrite(id, inputsQueue, inputs[id])
             /\ mode' = IF modeQueue = <<>> THEN mode ELSE modeQueue[Len(modeQueue)]]_vars

\* C6 witness: two edits, of carbon and of hydrogen, were issued after the
\* last render, which left 4 atoms of oxygen: the rendered quantities and
\* the mode are still those of that render.
C6_Witness ==
    /\ inputsQueue = <<FnUpdate("C", Fin(4, 1)), FnUpdate("H", Infinity)>>
    /\ modeQueue = <<>> /\ mode = "molar"
    /\ inputs = [id \in Ids |-> IF id = "O" THEN Fin(4, 1) ELSE Zero]
    /\ totalMass = Fin(63996, 1000)

\* C7 as stated: a switch of mode leaves the quantities unchanged and
\* changes the contributions.
C7_ModeSwitchChangesContributions ==
    [][last'.op = "mode" /\ mode' # mode =>
          inputs' = inputs /\ elementMasses' # elementMasses]_vars

\* C7 amended: setMode(m) makes m the mode and leaves every quantity
\* unchanged; a switch to the other mode changes the contribution of exactly
\* the elements whose quantity is positive and finite (a quantity of 0, or
\* of Infinity, has the same contribution in both modes).
C7_ModeSwitchFrame ==
    [][last'.op = "mode" =>
          /\ mode' = last'.target
          /\ inputs' = inputs
          /\ mode' # mode =>
                \A id \in Ids :
                    (elementMasses'[id] # elementMasses[id])
                        <=> (inputs[id].k = "fin" /\ inputs[id].n > 0)]_vars

\* C7 witness: a switch to molar mode with 12 atoms of carbon and no
\* hydrogen: carbon contributes 144.132, hydrogen 0.
C7_Witness ==
    /\ last.op = "mode" /\ mode = "molar"
    /\ inputs["C"] = Fin(12, 1) /\ elementMasses["C"] = Fin(144132, 1000)
    /\ inputs["H"] = Zero /\ elementMasses["H"] = Zero
    /\ inputs["O"] = Infinity /\ elementMasses["O"] = Infinity

\* The places in the element table whose contribution is > 0.
Positive == {i \in 1..Len(ELEMENTS) : Gt(elementMasses[ELEMENTS[i].id], Zero)}

\* C8: the chart slices are exactly the elements whose contribution is > 0,
\* each with its percentage, in the order of the element table; there is
\* none when total is 0 and at least one when total > 0.
C8_ChartSlices ==
    /\ Len(chartData) = Cardinality(Positive)
    /\ \A k \in 1..Len(chartData) :
          \E i \in Positive :
              /\ Cardinality({j \in Positive : j < i}) = k - 1
              /\ chartData[k].name = ELEMENTS[i].name
              /\ chartData[k].color = ELEMENTS[i].color
              /\ chartData[k].value = percentages[ELEMENTS[i].id]
    /\ totalMass = Zero => chartData = <<>>
    /\ Gt(totalMass, Zero) => chartData # <<>>

\* C8 witness: carbon and oxygen present, hydrogen and nitrogen absent: two
\* slices, carbon first.
C8_Witness ==
    /\ Len(chartData) = 2
    /\ chartData[1] = [name |-> "Carbon", value |-> Fin(75, 1), color |-> "#1f2937"]
    /\ chartData[2] = [name |-> "Oxygen", value |-> Fin(25, 1), color |-> "#ef4444"]

AtomicMass ==
    [id \in Ids |->
        CASE id = "C" -> Fin(12011, 1000)
          [] id = "H" -> Fin(1008, 1000)
          [] id = "O" -> Fin(15999, 1000)
          [] id = "N" -> Fin(14007, 1000)]

\* C9: the contribution of an element is its quantity in mass mode and
\* quantity * atomicMass in molar mode, and total is the sum of the four
\* contributions; in mass mode C = 12, H = 4 (others 0) give total 16,
\* 75 % carbon and 25 % hydrogen.
C9_ContributionAndTotal ==
    /\ \A id \in Ids :
          elementMasses[id] =
              IF mode = "mass" THEN inputs[id] ELSE Mul(inputs[id], AtomicMass[id])
    /\ totalMass = Add(Add(Add(elementMasses["C"], elementMasses["H"]),
                           elementMasses["O"]), elementMasses["N"])
    /\ (mode = "mass" /\ inputs["C"] = Fin(12, 1) /\ inputs["H"] = Fin(4, 1)
            /\ inputs["O"] = Zero /\ inputs["N"] = Zero) =>
          /\ totalMass = Fin(16, 1)
          /\ percentages["C"] = Fin(75, 1)
          /\ percentages["H"] = Fin(25, 1)

\* C9 witness: the example, in mass mode.
C9_Witness ==
    /\ mode = "mass" /\ last.op = "change"
    /\ inputs["C"] = Fin(12, 1) /\ inputs["H"] = Fin(4, 1)
    /\ inputs["O"] = Zero /\ inputs["N"] = Zero
    /\ totalMass = Fin(16, 1) /\ percentages["H"] = Fin(25, 1)

\* C10: the memoized contribution, total, percentages and chart slices are
\* those a fresh computation from the current inputs and mode gives.
C10_MemoEqualsRecomputation ==
    LET masses == ElementMassesOf(inputs, mode)
        total  == TotalMassOf(masses)
        percs  == PercentagesOf(masses, total)
    IN /\ elementMasses = masses
       /\ totalMass = total
       /\ percentages = percs
       /\ chartData = ChartDataOf(masses, percs)

\* C10 witness: a switch of mode alone refreshed the derived values: 4
\* atoms of hydrogen weigh 4.032, all of the total.
C10_Witness ==
    /\ last.op = "mode" /\ mode = "molar"
    /\ inputs = [id \in Ids |-> IF id = "H" THEN Fin(4, 1) ELSE Zero]
    /\ totalMass = Fin(4032, 1000)
    /\ percentages["H"] = Hundred

====
